---------------------------- MODULE Spec2Model ----------------------------
(***************************************************************************)
(* Client onboarding form: the zod schema (lib/schema) and the submission  *)
(* controller (components/OnboardingForm.tsx).                             *)
(*                                                                         *)
(* Strings are sequences of one-character strings.  Numbers are rationals  *)
(* [kind, num, den] so that non-integers, NaN and undefined are values.    *)
(* Instants are hours since 1970-01-01T00:00Z; a timezone is its offset    *)
(* from UTC in hours (local = UTC + tz).                                   *)
(***************************************************************************)
EXTENDS Integers, Sequences, FiniteSets, TLC

VARIABLES
    form,             \* react-hook-form's current field values
    now,              \* the clock: what new Date() returns
    tz,               \* the browser's timezone offset
    endpoint,         \* process.env.NEXT_PUBLIC_ONBOARD_URL is set
    result,           \* the last result of onboardingSchema.safeParse
    errors,           \* formState.errors: field -> first message
    isSubmitting,     \* useState(false)
    submissionState,  \* useState({type: null, message: ''})
    validating,       \* handleSubmit calls awaiting the resolver
    inflight,         \* axios.post calls awaiting their outcome
    history,          \* per submit trigger: what has happened to it
    nextId,           \* number of submit triggers so far
    parsedAt          \* the instants of the last two safeParse calls

vars == <<form, now, tz, endpoint, result, errors, isSubmitting,
          submissionState, validating, inflight, history, nextId, parsedAt>>

-----------------------------------------------------------------------------
(* Bounds of the model *)

\* submit triggers per behaviour
MaxSubmits == 2
\* hours the clock may advance
MaxTicks == 30
\* longest free-form sample string
MaxShort == 2

-----------------------------------------------------------------------------
(* Strings *)

LowerCase == {"a","b","c","d","e","f","g","h","i","j","k","l","m",
              "n","o","p","q","r","s","t","u","v","w","x","y","z"}
UpperCase == {"A","B","C","D","E","F","G","H","I","J","K","L","M",
              "N","O","P","Q","R","S","T","U","V","W","X","Y","Z"}
Digits == {"0","1","2","3","4","5","6","7","8","9"}
\* what the regular expression class \s matches (ASCII part)
WhiteSpace == {" ", "\t", "\n", "\r", "\f"}

Repeat(c, n) == [i \in 1..n |-> c]

RECURSIVE SeqsUpTo(_, _)
SeqsUpTo(S, n) ==
    IF n = 0 THEN {<<>>}
    ELSE LET shorter == SeqsUpTo(S, n - 1)
         IN  shorter \cup {Append(s, c) : s \in {t \in shorter : Len(t) = n - 1}, c \in S}

-----------------------------------------------------------------------------
(* Numbers: JavaScript numbers as rationals, with NaN and undefined *)

Num(n, d) == [kind |-> "number", num |-> n, den |-> d]
Whole(n) == Num(n, 1)
NaN == [kind |-> "nan", num |-> 0, den |-> 1]
Undefined == [kind |-> "undefined", num |-> 0, den |-> 1]

\* Number.isInteger
IsInteger(v) == v.kind = "number" /\ (v.num % v.den) = 0
\* v >= n and v <= n for an integer n
NumGE(v, n) == v.kind = "number" /\ v.num >= n * v.den
NumLE(v, n) == v.kind = "number" /\ v.num <= n * v.den
\* JavaScript truthiness of a number or undefined
Truthy(v) == v.kind = "number" /\ v.num # 0

-----------------------------------------------------------------------------
(* Dates *)

DigitChar == <<"0","1","2","3","4","5","6","7","8","9">>
DigitVal(c) == (CHOOSE i \in 1..10 : DigitChar[i] = c) - 1

TwoDigits(n) == <<DigitChar[((n \div 10) % 10) + 1], DigitChar[(n % 10) + 1]>>
\* the value of <input type="date">: YYYY-MM-DD
DateString(y, m, d) ==
    TwoDigits(y \div 100) \o TwoDigits(y % 100) \o <<"-">> \o TwoDigits(m)
        \o <<"-">> \o TwoDigits(d)

\* days from 1970-01-01 to the civil date y-m-d (proleptic Gregorian)
DaysFromCivil(y, m, d) ==
    LET yy  == IF m <= 2 THEN y - 1 ELSE y
        era == yy \div 400
        yoe == yy - era * 400
        mp  == IF m > 2 THEN m - 3 ELSE m + 9
        doy == (153 * mp + 2) \div 5 + d - 1
        doe == yoe * 365 + yoe \div 4 - yoe \div 100 + doy
    IN  era * 146097 + doe - 719468

HoursPerDay == 24

Instant(t) == [nan |-> FALSE, t |-> t]
InvalidDate == [nan |-> TRUE, t |-> 0]

IsIsoDate(s) ==
    /\ Len(s) = 10
    /\ s[5] = "-" /\ s[8] = "-"
    /\ \A i \in {1, 2, 3, 4, 6, 7, 9, 10} : s[i] \in Digits

\* new Date(date): a date-only ISO string is UTC midnight of that date; anything
\* else the form can hold (the empty string) is an Invalid Date
NewDate(s) ==
    IF IsIsoDate(s)
    THEN LET y == 1000 * DigitVal(s[1]) + 100 * DigitVal(s[2])
                    + 10 * DigitVal(s[3]) + DigitVal(s[4])
             m == 10 * DigitVal(s[6]) + DigitVal(s[7])
             d == 10 * DigitVal(s[9]) + DigitVal(s[10])
         IN  Instant(DaysFromCivil(y, m, d) * HoursPerDay)
    ELSE InvalidDate

\* the local calendar day (days since the epoch) at instant t in zone z
LocalDay(t, z) == (t + z) \div HoursPerDay

\* today without setHours(0, 0, 0, 0): the current instant
TodayMidnight_noSetHours(t, z) == Instant(t)

\* today = new Date(); today.setHours(0, 0, 0, 0): local midnight, as an instant
TodayMidnight(t, z) == Instant(LocalDay(t, z) * HoursPerDay - z)

\* a >= b on Dates: false when either is an Invalid Date
DateGE(a, b) == ~a.nan /\ ~b.nan /\ a.t >= b.t

-----------------------------------------------------------------------------
(* lib/schema: onboardingSchema *)

ServiceOption == [UI_UX |-> "UI/UX", BRANDING |-> "Branding",
                  WEB_DEV |-> "Web Dev", MOBILE_APP |-> "Mobile App"]
serviceOptions == {ServiceOption.UI_UX, ServiceOption.BRANDING,
                   ServiceOption.WEB_DEV, ServiceOption.MOBILE_APP}

FullNameMin == 2
FullNameMax == 80
EmailMin == 1
CompanyNameMin == 2
CompanyNameMax == 100
ServicesMin == 1
BudgetMin == 100
BudgetMax == 1000000
DateMin == 1

Issue(path, message) == [path |-> path, message |-> message]
\* one check of a zod chain: an issue when it fails, and the chain goes on
Check(ok, path, message) == IF ok THEN <<>> ELSE <<Issue(path, message)>>

\* /^[a-zA-Z\s''-]+$/
FullNameRegex(s) ==
    /\ Len(s) >= 1
    /\ \A i \in 1..Len(s) :
          s[i] \in LowerCase \cup UpperCase \cup WhiteSpace \cup {"'", "-"}

fullName(v) ==
    Check(Len(v) >= FullNameMin, "fullName", "Full name must be at least 2 characters")
    \o Check(Len(v) <= FullNameMax, "fullName", "Full name must be at most 80 characters")
    \o Check(FullNameRegex(v), "fullName",
             "Full name can only contain letters, spaces, apostrophes, and hyphens")

AlNum == LowerCase \cup UpperCase \cup Digits

\* zod's email pattern:
\* /^(?!\.)(?!.*\.\.)([A-Z0-9_'+\-\.]*)[A-Z0-9_+-]@([A-Z0-9][A-Z0-9\-]*\.)+[A-Z]{2,}$/i
EmailRegex(s) ==
    LET ats == {i \in 1..Len(s) : s[i] = "@"}
    IN  /\ Cardinality(ats) = 1
        /\ LET at   == CHOOSE i \in ats : TRUE
               dots == {i \in at + 1..Len(s) : s[i] = "."}
           IN  /\ at > 1
               /\ s[1] # "."
               /\ \A i \in 1..Len(s) - 1 : ~(s[i] = "." /\ s[i + 1] = ".")
               /\ \A i \in 1..at - 1 : s[i] \in AlNum \cup {"_", "'", "+", "-", "."}
               /\ s[at - 1] \in AlNum \cup {"_", "+", "-"}
               /\ dots # {}
               /\ LET last == CHOOSE i \in dots : \A j \in dots : j <= i
                  IN  /\ at + 1 < last
                      /\ s[at + 1] \in AlNum
                      /\ \A i \in at + 1..last : s[i] \in AlNum \cup {"-", "."}
                      /\ \A i \in dots : i < last => s[i + 1] \in AlNum
                      /\ Len(s) - last >= 2
                      /\ \A i \in last + 1..Len(s) : s[i] \in LowerCase \cup UpperCase

\* email with the format checked before the length
email_formatFirst(v) ==
    Check(EmailRegex(v), "email", "Please enter a valid email address")
    \o Check(Len(v) >= EmailMin, "email", "Email is required")

email(v) ==
    Check(Len(v) >= EmailMin, "email", "Email is required")
    \o Check(EmailRegex(v), "email", "Please enter a valid email address")

companyName(v) ==
    Check(Len(v) >= CompanyNameMin, "companyName",
          "Company name must be at least 2 characters")
    \o Check(Len(v) <= CompanyNameMax, "companyName",
             "Company name must be at most 100 characters")

RECURSIVE EnumIssues(_)
EnumIssues(a) ==
    IF a = <<>> THEN <<>>
    ELSE Check(Head(a) \in serviceOptions, "services", "Invalid enum value")
         \o EnumIssues(Tail(a))

services(v) ==
    Check(Len(v) >= ServicesMin, "services", "Please select at least one service")
    \o EnumIssues(v)

\* budgetUsd with the upper limit taken as exclusive
budgetUsd_exclusiveMax(v) ==
    IF v.kind = "undefined" THEN <<>>
    ELSE IF v.kind # "number"
    THEN <<Issue("budgetUsd", "Expected number, received nan")>>
    ELSE Check(IsInteger(v), "budgetUsd", "Budget must be a whole number")
         \o Check(NumGE(v, BudgetMin), "budgetUsd", "Budget must be at least $100")
         \o Check(~NumGE(v, BudgetMax), "budgetUsd", "Budget must be at most $1,000,000")

budgetUsd(v) ==
    IF v.kind = "undefined" THEN <<>>
    ELSE IF v.kind # "number"
    THEN <<Issue("budgetUsd", "Expected number, received nan")>>
    ELSE Check(IsInteger(v), "budgetUsd", "Budget must be a whole number")
         \o Check(NumGE(v, BudgetMin), "budgetUsd", "Budget must be at least $100")
         \o Check(NumLE(v, BudgetMax), "budgetUsd", "Budget must be at most $1,000,000")

\* the refinement of projectStartDate
StartDateRefine(date, t, z) ==
    LET selectedDate == NewDate(date)
        today        == TodayMidnight(t, z)
    IN  DateGE(selectedDate, today)

projectStartDate(v, t, z) ==
    Check(Len(v) >= DateMin, "projectStartDate", "Project start date is required")
    \o Check(StartDateRefine(v, t, z), "projectStartDate",
             "Project start date must be today or later")

acceptTerms(v) ==
    Check(v = TRUE, "acceptTerms", "You must accept the terms and conditions")

\* the keys of z.object({...}), in declaration order
Shape == <<"fullName", "email", "companyName", "services", "budgetUsd",
           "projectStartDate", "acceptTerms">>

FieldIssues(key, data, t, z) ==
    CASE key = "fullName"         -> fullName(data.fullName)
      [] key = "email"            -> email(data.email)
      [] key = "companyName"      -> companyName(data.companyName)
      [] key = "services"         -> services(data.services)
      [] key = "budgetUsd"        -> budgetUsd(data.budgetUsd)
      [] key = "projectStartDate" -> projectStartDate(data.projectStartDate, t, z)
      [] key = "acceptTerms"      -> acceptTerms(data.acceptTerms)

\* z.object parses every key and collects the issues of all of them
RECURSIVE ParseKeys(_, _, _, _)
ParseKeys(keys, data, t, z) ==
    IF keys = <<>> THEN <<>>
    ELSE FieldIssues(Head(keys), data, t, z) \o ParseKeys(Tail(keys), data, t, z)

onboardingSchema(data, t, z) == ParseKeys(Shape, data, t, z)

safeParse(data, t, z) ==
    LET issues == onboardingSchema(data, t, z)
    IN  [success |-> issues = <<>>, issues |-> issues]

NoResult == [success |-> FALSE, issues |-> <<>>]

\* transformFormData with the budget never carried over
transformFormData_dropBudget(data) == [data EXCEPT !.budgetUsd = Undefined]

\* Transform data for API submission
transformFormData(data) ==
    [data EXCEPT !.budgetUsd = IF Truthy(data.budgetUsd) THEN data.budgetUsd
                               ELSE Undefined]

-----------------------------------------------------------------------------
(* components/OnboardingForm.tsx: helpers *)

Msg(text, status, detail) == [text |-> text, status |-> status, detail |-> detail]
EmptyMsg == Msg("", 0, "")

Fields == {Shape[i] : i \in 1..Len(Shape)}
NoErrors == [f \in Fields |-> ""]

\* zodResolver: per field, the message of its first issue
FirstErrors(issues) ==
    [f \in Fields |->
        LET at == {i \in 1..Len(issues) : issues[i].path = f}
        IN  IF at = {} THEN ""
            ELSE issues[CHOOSE i \in at : \A j \in at : i <= j].message]

defaultValues ==
    [fullName |-> <<>>, email |-> <<>>, companyName |-> <<>>, services |-> <<>>,
     budgetUsd |-> Undefined, projectStartDate |-> <<>>, acceptTerms |-> FALSE]

\* what the remote endpoint and the network can do to one request
Response(status, message) == [kind |-> "response", status |-> status, message |-> message]
NoResponse == [kind |-> "noresponse", status |-> 0, message |-> ""]
TimedOut == [kind |-> "timeout", status |-> 0, message |-> ""]
NoOutcome == [kind |-> "none", status |-> 0, message |-> ""]
Outcomes ==
    {Response(200, ""), Response(201, ""), Response(204, ""),
     Response(500, ""), Response(500, "DB down"), NoResponse, TimedOut}

NoError == [thrown |-> FALSE, isAxiosError |-> FALSE, response |-> FALSE, status |-> 0,
            message |-> "", request |-> FALSE, code |-> ""]

\* await axios.post(apiEndpoint, transformedData, {timeout: 10000}): the promise
\* resolves with a 2xx response (axios's default validateStatus) and is rejected
\* with an AxiosError otherwise; the error of a request that was sent carries the
\* request, the error of a response carries the response too, and the error of a
\* timeout has the code ECONNABORTED
AxiosPost(outcome) ==
    IF outcome.kind = "response" /\ outcome.status >= 200 /\ outcome.status < 300
    THEN [status |-> outcome.status, error |-> NoError]
    ELSE [status |-> 0,
          error |-> [thrown |-> TRUE, isAxiosError |-> TRUE,
                     response |-> outcome.kind = "response",
                     status |-> outcome.status, message |-> outcome.message,
                     request |-> TRUE,
                     code |-> CASE outcome.kind = "response" -> "ERR_BAD_RESPONSE"
                                [] outcome.kind = "timeout" -> "ECONNABORTED"
                                [] OTHER -> "ERR_NETWORK"]]

\* throw new Error('API endpoint not configured')
EndpointError == [NoError EXCEPT !.thrown = TRUE]

\* if (response.status === 200 || response.status === 201)
IsSuccessStatus(status) == status = 200 \/ status = 201

\* the catch block's errorMessage
ErrorMessage(error) ==
    IF error.isAxiosError
    THEN IF error.response
         THEN Msg("Server error", error.status,
                  IF error.message # "" THEN error.message ELSE "Please try again later.")
         ELSE IF error.request
         THEN Msg("Network error: Please check your connection and try again.", 0, "")
         ELSE IF error.code = "ECONNABORTED"
         THEN Msg("Request timeout: Please try again.", 0, "")
         ELSE Msg("An unexpected error occurred. Please try again.", 0, "")
    ELSE Msg("An unexpected error occurred. Please try again.", 0, "")

\* <Button type="submit" disabled={isSubmitting}>
ButtonDisabled == isSubmitting

\* the instants of the calls of safeParse, the last two of them kept
LastTwo(times, t) == IF times = <<>> THEN <<t>> ELSE <<times[Len(times)], t>>

\* what is recorded of one submit trigger
NewTrigger == [stage |-> "validating", requests |-> 0, outcome |-> NoOutcome,
               swal |-> FALSE, error |-> EmptyMsg]

-----------------------------------------------------------------------------
(* components/OnboardingForm.tsx: the form and the submission controller *)

ValidRecord ==
    [fullName |-> <<"J", "o", " ", "D">>,
     email |-> <<"j", "@", "e", ".", "c", "o">>,
     companyName |-> <<"A", "c">>,
     services |-> <<ServiceOption.UI_UX, ServiceOption.WEB_DEV>>,
     budgetUsd |-> Whole(50000),
     projectStartDate |-> DateString(2026, 6, 15),
     acceptTerms |-> TRUE]

\* the records the user assembles in the submission flow
SampleRecords ==
    {ValidRecord,
     [ValidRecord EXCEPT !.budgetUsd = Undefined],
     [ValidRecord EXCEPT !.acceptTerms = FALSE],
     [ValidRecord EXCEPT !.fullName = <<"J">>, !.email = <<"x">>, !.services = <<>>]}

ClockStart == DaysFromCivil(2025, 12, 31) * HoursPerDay
TimeZones == {-11, -5, 0, 1, 9, 14}

Init ==
    /\ form = defaultValues
    /\ now = ClockStart
    /\ tz = 0
    /\ endpoint \in BOOLEAN
    /\ result = NoResult
    /\ errors = NoErrors
    /\ isSubmitting = FALSE
    /\ submissionState = [type |-> "null", message |-> EmptyMsg]
    /\ validating = {}
    /\ inflight = {}
    /\ history = <<>>
    /\ nextId = 0
    /\ parsedAt = <<>>

\* the user fills in or changes the fields (register(...) inputs)
Edit ==
    /\ \E r \in SampleRecords : r # form /\ form' = r
    /\ UNCHANGED <<now, tz, endpoint, result, errors, isSubmitting, submissionState,
                   validating, inflight, history, nextId, parsedAt>>

\* the form's submit event: handleSubmit(onSubmit) runs the resolver on the
\* current values and awaits it
Submit ==
    /\ ~ButtonDisabled
    /\ nextId < MaxSubmits
    /\ nextId' = nextId + 1
    /\ result' = safeParse(form, now, tz)
    /\ parsedAt' = LastTwo(parsedAt, now)
    /\ validating' = validating \cup {[id |-> nextId', data |-> form, result |-> result']}
    /\ history' = Append(history, NewTrigger)
    /\ UNCHANGED <<form, now, tz, endpoint, errors, isSubmitting, submissionState, inflight>>

\* onSubmit without the check of apiEndpoint
onSubmit_noEndpointCheck(id, data) ==
    /\ isSubmitting' = TRUE
    /\ submissionState' = [type |-> "null", message |-> EmptyMsg]
    /\ inflight' = inflight \cup {[id |-> id, payload |-> transformFormData(data)]}
    /\ history' = [history EXCEPT ![id].stage = "inflight", ![id].requests = @ + 1]

\* onSubmit up to its await: the state is reset, then either the request is sent
\* or the missing endpoint throws into catch and finally
onSubmit(id, data) ==
    IF endpoint
    THEN /\ isSubmitting' = TRUE
         /\ submissionState' = [type |-> "null", message |-> EmptyMsg]
         /\ inflight' = inflight \cup {[id |-> id, payload |-> transformFormData(data)]}
         /\ history' = [history EXCEPT ![id].stage = "inflight", ![id].requests = @ + 1]
    ELSE /\ isSubmitting' = FALSE
         /\ submissionState' = [type |-> "error", message |-> ErrorMessage(EndpointError)]
         /\ inflight' = inflight
         /\ history' = [history EXCEPT ![id].stage = "done",
                                       ![id].error = ErrorMessage(EndpointError)]

\* handleSubmit after the resolver: onSubmit for a valid record, the field errors
\* otherwise
HandleSubmit(v) ==
    IF v.result.success
    THEN /\ errors' = NoErrors
         /\ onSubmit(v.id, v.data)
    ELSE /\ errors' = FirstErrors(v.result.issues)
         /\ history' = [history EXCEPT ![v.id].stage = "invalid"]
         /\ UNCHANGED <<isSubmitting, submissionState, inflight>>

Resolve ==
    \E v \in validating :
        /\ validating' = validating \ {v}
        /\ HandleSubmit(v)
        /\ UNCHANGED <<form, now, tz, endpoint, result, nextId, parsedAt>>

\* onSubmit after its await with the state reset in the success branch only,
\* not in finally
onSubmitSettled_noFinally(r, outcome) ==
    LET settled == AxiosPost(outcome)
        fired   == ~settled.error.thrown /\ IsSuccessStatus(settled.status)
        message == IF settled.error.thrown THEN ErrorMessage(settled.error) ELSE EmptyMsg
    IN  /\ inflight' = inflight \ {r}
        /\ submissionState' = IF settled.error.thrown
                              THEN [type |-> "error", message |-> message]
                              ELSE submissionState
        /\ isSubmitting' = IF settled.error.thrown THEN isSubmitting ELSE FALSE
        /\ history' = [history EXCEPT ![r.id].stage = "done", ![r.id].outcome = outcome,
                                      ![r.id].swal = fired, ![r.id].error = message]

\* onSubmit after its await with a request that got no response sent again
onSubmitSettled_retry(r, outcome) ==
    LET settled == AxiosPost(outcome)
        fired   == ~settled.error.thrown /\ IsSuccessStatus(settled.status)
        message == IF settled.error.thrown THEN ErrorMessage(settled.error) ELSE EmptyMsg
        again   == outcome.kind = "noresponse" /\ history[r.id].requests < 2
    IN  /\ inflight' = IF again THEN inflight ELSE inflight \ {r}
        /\ submissionState' = IF settled.error.thrown /\ ~again
                              THEN [type |-> "error", message |-> message]
                              ELSE submissionState
        /\ isSubmitting' = again
        /\ history' = IF again
                      THEN [history EXCEPT ![r.id].requests = @ + 1]
                      ELSE [history EXCEPT ![r.id].stage = "done",
                                           ![r.id].outcome = outcome,
                                           ![r.id].swal = fired, ![r.id].error = message]

\* onSubmit after its await: the success branch, catch, finally
onSubmitSettled(r, outcome) ==
    LET settled == AxiosPost(outcome)
        fired   == ~settled.error.thrown /\ IsSuccessStatus(settled.status)
        message == IF settled.error.thrown THEN ErrorMessage(settled.error) ELSE EmptyMsg
    IN  /\ inflight' = inflight \ {r}
        /\ submissionState' = IF settled.error.thrown
                              THEN [type |-> "error", message |-> message]
                              ELSE submissionState
        /\ isSubmitting' = FALSE
        /\ history' = [history EXCEPT ![r.id].stage = "done", ![r.id].outcome = outcome,
                                      ![r.id].swal = fired, ![r.id].error = message]

\* the request ends: a response, no response, or the 10 s timeout
Settle ==
    \E r \in inflight, outcome \in Outcomes :
        /\ onSubmitSettled(r, outcome)
        /\ UNCHANGED <<form, now, tz, endpoint, result, errors, validating, nextId,
                       parsedAt>>

Next == Edit \/ Submit \/ Resolve \/ Settle

Spec == Init /\ [][Next]_vars

\* a pending promise is settled: the resolver's by the microtask queue, the
\* request's by the response or, at the latest, by its timeout
FairSpec == Spec /\ WF_vars(Resolve) /\ WF_vars(Settle)

-----------------------------------------------------------------------------
(* lib/schema exercised on its own: onboardingSchema.safeParse(record) *)

\* onboardingSchema.safeParse(form) at the current instant
Parse ==
    /\ result = NoResult
    /\ result' = safeParse(form, now, tz)
    /\ parsedAt' = LastTwo(parsedAt, now)
    /\ UNCHANGED <<form, now, tz, endpoint, errors, isSubmitting, submissionState,
                   validating, inflight, history, nextId>>

Idle ==
    /\ endpoint = TRUE
    /\ result = NoResult
    /\ errors = NoErrors
    /\ isSubmitting = FALSE
    /\ submissionState = [type |-> "null", message |-> EmptyMsg]
    /\ validating = {}
    /\ inflight = {}
    /\ history = <<>>
    /\ nextId = 0
    /\ parsedAt = <<>>

NameAlphabet == {"a", "Z", " ", "'", "-", "1", "\t", "\n", "_"}
ShortStrings == SeqsUpTo(NameAlphabet, MaxShort)
\* short strings, and strings around the maximum length
FullNameInputs ==
    ShortStrings \cup
    {Repeat("A", n) \o s : n \in FullNameMax - MaxShort..FullNameMax, s \in ShortStrings}

InitFullName ==
    /\ \E v \in FullNameInputs : form = [ValidRecord EXCEPT !.fullName = v]
    /\ now = ClockStart
    /\ tz = 0
    /\ Idle

SpecFullName == InitFullName /\ [][Parse]_vars

\* how far around its limits the budget is sampled
BudgetSpan == 5
Around(n) == n - BudgetSpan..n + BudgetSpan
BudgetInputs ==
    {Undefined, NaN}
    \cup {Whole(n) : n \in Around(0) \cup Around(BudgetMin) \cup Around(BudgetMax)}
    \cup {Num(n, 2) : n \in Around(2 * BudgetMin) \cup Around(2 * BudgetMax)}

InitBudget ==
    /\ \E v \in BudgetInputs : form = [ValidRecord EXCEPT !.budgetUsd = v]
    /\ now = ClockStart
    /\ tz = 0
    /\ Idle

SpecBudget == InitBudget /\ [][Parse]_vars

\* the days around the clock's range, and the empty string
DateInputs ==
    {<<>>} \cup {DateString(2025, 12, d) : d \in 29..31}
           \cup {DateString(2026, 1, d) : d \in 1..3}

InitDate ==
    /\ \E v \in DateInputs : form = [ValidRecord EXCEPT !.projectStartDate = v]
    /\ now \in ClockStart..ClockStart + MaxTicks
    /\ tz \in TimeZones
    /\ Idle

SpecDate == InitDate /\ [][Parse]_vars

\* time passes
Tick ==
    /\ now < ClockStart + MaxTicks
    /\ now' = now + 1
    /\ UNCHANGED <<form, tz, endpoint, result, errors, isSubmitting, submissionState,
                   validating, inflight, history, nextId, parsedAt>>

\* onboardingSchema.safeParse(form) once more, on the same record
Reparse ==
    /\ result # NoResult
    /\ result' = safeParse(form, now, tz)
    /\ parsedAt' = LastTwo(parsedAt, now)
    /\ UNCHANGED <<form, now, tz, endpoint, errors, isSubmitting, submissionState,
                   validating, inflight, history, nextId>>

InitRepeat ==
    /\ \E v \in DateInputs : form = [ValidRecord EXCEPT !.projectStartDate = v]
    /\ now = ClockStart
    /\ tz \in TimeZones
    /\ Idle

\* the same record validated again and again while time passes
SpecRepeat == InitRepeat /\ [][Parse \/ Tick \/ Reparse]_vars

\* every combination of a few values per field, valid and invalid
FieldInputs ==
    [fullName : {ValidRecord.fullName, <<>>, <<"J">>, <<"1">>, <<"J", "\t", "D">>,
                 <<"1", "2">>},
     email : {ValidRecord.email, <<>>, <<"x">>},
     companyName : {ValidRecord.companyName, <<"A">>},
     services : {<<ServiceOption.BRANDING>>, <<>>, <<"Invalid Service">>,
                 <<ServiceOption.UI_UX, "Invalid Service">>},
     budgetUsd : {Undefined, Whole(50000), Whole(50), Num(100001, 2)},
     projectStartDate : {<<>>, DateString(2025, 12, 30), DateString(2025, 12, 31),
                         DateString(2026, 1, 1)},
     acceptTerms : BOOLEAN]

InitRecord ==
    /\ form \in FieldInputs
    /\ now = ClockStart + 12
    /\ tz \in {-5, 0}
    /\ Idle

SpecRecord == InitRecord /\ [][Parse]_vars

-----------------------------------------------------------------------------
(* Properties of the schema *)

HasIssue(res, f) == \E i \in 1..Len(res.issues) : res.issues[i].path = f
FirstMessage(res, f) == FirstErrors(res.issues)[f]
Parsed == result # NoResult

\* the calendar day a YYYY-MM-DD string names, in days since the epoch
DayOf(s) == NewDate(s).t \div HoursPerDay

\* C7: at every time of day and in every timezone, a projectStartDate equal to
\* today's local date is accepted, every date before today's local date is
\* rejected with "Project start date must be today or later", and the empty
\* string is rejected.
C7_TodayOrLater ==
    Parsed =>
        LET d     == form.projectStartDate
            today == LocalDay(now, tz)
        IN  /\ d = <<>> => ~result.success
            /\ (d # <<>> /\ DayOf(d) = today) => result.success
            /\ (d # <<>> /\ DayOf(d) < today) =>
                   FirstMessage(result, "projectStartDate")
                       = "Project start date must be today or later"

\* C7, the part the code meets: the empty string and every date before today's
\* local date are rejected in every timezone, and today's local date is accepted
\* where local time is not behind UTC.
C7_EastOfUtc ==
    Parsed =>
        LET d     == form.projectStartDate
            today == LocalDay(now, tz)
        IN  /\ d = <<>> => ~result.success
            /\ (d # <<>> /\ DayOf(d) = today /\ tz >= 0) => result.success
            /\ (d # <<>> /\ DayOf(d) < today) =>
                   FirstMessage(result, "projectStartDate")
                       = "Project start date must be today or later"

\* the characters the specification allows in fullName
NameChars == LowerCase \cup UpperCase \cup {" ", "'", "-"}
FullNameConstraint(v) ==
    /\ Len(v) >= FullNameMin
    /\ Len(v) <= FullNameMax
    /\ \A i \in 1..Len(v) : v[i] \in NameChars

\* C8: fullName is accepted if and only if its length is in [2,80] and every
\* character is a letter, a space, an apostrophe or a hyphen.
C8_FullNameCharset ==
    Parsed => (result.success <=> FullNameConstraint(form.fullName))

BudgetConstraint(v) ==
    \/ v = Undefined
    \/ /\ v.kind = "number"
       /\ (v.num % v.den) = 0
       /\ v.num >= BudgetMin * v.den
       /\ v.num <= BudgetMax * v.den

\* C9: budgetUsd is accepted if and only if it is absent or an integer in
\* [100, 1000000], the limits included.
C9_BudgetRange ==
    Parsed => (result.success <=> BudgetConstraint(form.budgetUsd))

C9_Witness ==
    /\ Parsed
    /\ form.budgetUsd = Whole(BudgetMax)
    /\ result.success

\* the seven field constraints of the specification's data model
FieldConstraint(f, data, t, z) ==
    CASE f = "fullName"    -> FullNameConstraint(data.fullName)
      [] f = "email"       -> Len(data.email) >= 1 /\ EmailRegex(data.email)
      [] f = "companyName" -> /\ Len(data.companyName) >= CompanyNameMin
                              /\ Len(data.companyName) <= CompanyNameMax
      [] f = "services"    -> /\ data.services # <<>>
                              /\ \A i \in 1..Len(data.services) :
                                    data.services[i] \in serviceOptions
      [] f = "budgetUsd"   -> BudgetConstraint(data.budgetUsd)
      [] f = "projectStartDate" ->
             /\ data.projectStartDate # <<>>
             /\ DayOf(data.projectStartDate) >= LocalDay(t, z)
      [] f = "acceptTerms" -> data.acceptTerms = TRUE

\* C10: a record is accepted if and only if all seven field constraints hold,
\* and the result holds at least one error for each field whose constraint
\* does not hold.
C10_AllFields ==
    Parsed =>
        /\ result.success <=> \A f \in Fields : FieldConstraint(f, form, now, tz)
        /\ \A f \in Fields : ~FieldConstraint(f, form, now, tz) => HasIssue(result, f)

\* C10, the part the code meets: the issues of all fields are collected. Every
\* field whose own rules reject its value has an error in the result, whatever
\* the other fields hold, and the record is accepted exactly when no field has.
C10_NotShortCircuited ==
    Parsed =>
        /\ \A f \in Fields : HasIssue(result, f) <=> FieldIssues(f, form, now, tz) # <<>>
        /\ result.success <=> \A f \in Fields : ~HasIssue(result, f)

-----------------------------------------------------------------------------
(* Properties of the submission controller *)

Triggers == 1..nextId
\* the handleSubmit calls whose resolver settles in this step
Resolved == validating \ validating'

\* C1: a request is issued only for a record that passed the schema and with the
\* endpoint configured. A failed validation leaves the controller as it was,
\* surfaces the field errors and sends nothing; a missing endpoint ends onSubmit
\* with an error message and sends nothing.
C1_OnlyValidatedRequests ==
    /\ [](\A r \in inflight :
             endpoint /\ onboardingSchema(r.payload, now, tz) = <<>>)
    /\ [][\A v \in Resolved :
             /\ ~v.result.success =>
                   /\ isSubmitting' = isSubmitting
                   /\ submissionState' = submissionState
                   /\ inflight' = inflight
                   /\ errors' = FirstErrors(v.result.issues)
                   /\ errors' # NoErrors
                   /\ history'[v.id].requests = 0
             /\ (v.result.success /\ ~endpoint) =>
                   /\ inflight' = inflight
                   /\ ~isSubmitting'
                   /\ submissionState'.type = "error"
                   /\ submissionState'.message # EmptyMsg
                   /\ history'[v.id].requests = 0]_vars
    /\ [][inflight' \subseteq inflight
            \/ \E v \in Resolved : v.result.success /\ endpoint]_vars

C1_Witness ==
    /\ ~endpoint
    /\ \E i \in Triggers : history[i].stage = "invalid" /\ errors # NoErrors
    /\ \E j \in Triggers : history[j].stage = "done"
    /\ submissionState.type = "error"
    /\ inflight = {}

\* C2: in every reachable state at most one network request is in flight.
C2_AtMostOneInFlight == Cardinality(inflight) <= 1

StageOf(id) == IF id \in Triggers THEN history[id].stage ELSE "none"

\* C3: every submission that enters Submitting returns to Idle, whichever way the
\* request ends: each request in flight is eventually done, the step that ends a
\* request leaves isSubmitting false, and isSubmitting is true only while a
\* request is in flight.
C3_ReturnsToIdle ==
    /\ isSubmitting ~> ~isSubmitting
    /\ \A id \in 1..MaxSubmits : (StageOf(id) = "inflight") ~> (StageOf(id) = "done")
    /\ [][\A r \in inflight \ inflight' : ~isSubmitting']_vars
    /\ [](isSubmitting => inflight # {})

C3_Witness ==
    /\ ~isSubmitting
    /\ \E i \in Triggers : history[i].outcome = TimedOut
    /\ \E j \in Triggers : history[j].outcome = Response(500, "DB down")

\* the submissions whose request has completed
Completed == {id \in Triggers : history[id].outcome # NoOutcome}

\* C4: a completed request ends in exactly one of two outcomes: status 200 or 201
\* with the success acknowledgment and no error, or anything else with an error
\* message and no acknowledgment.
C4_SuccessOrError ==
    \A id \in Completed :
        LET h == history[id]
        IN  IF h.outcome.kind = "response" /\ h.outcome.status \in {200, 201}
            THEN h.swal /\ h.error = EmptyMsg
            ELSE ~h.swal /\ h.error # EmptyMsg

\* the failure class of an outcome
FailureClass(outcome) ==
    CASE outcome.kind = "response" -> "server"
      [] outcome.kind = "noresponse" -> "network"
      [] outcome.kind = "timeout" -> "timeout"
      [] OTHER -> "configuration"

\* the message the controller shows for an outcome; NoOutcome: no endpoint
MessageFor(outcome) ==
    IF outcome = NoOutcome THEN ErrorMessage(EndpointError)
    ELSE ErrorMessage(AxiosPost(outcome).error)

Failures == {o \in Outcomes : AxiosPost(o).error.thrown} \cup {NoOutcome}

\* C5: the four failure classes have pairwise distinct messages (the message of
\* a failed submission is not the message of a failure of another class), and a
\* timed-out request shows the timeout message.
C5_DistinctMessages ==
    \A id \in Triggers :
        LET h == history[id]
        IN  (h.stage = "done" /\ h.error # EmptyMsg) =>
                /\ \A o \in Failures :
                      FailureClass(o) # FailureClass(h.outcome)
                          => MessageFor(o).text # h.error.text
                /\ h.outcome = TimedOut
                      => h.error.text = "Request timeout: Please try again."

\* C6: a submission of a valid record with the endpoint configured issues
\* exactly one request: one when its validation resolves, none before, and none
\* again whatever the outcome.
C6_OneRequestPerSubmit ==
    /\ [](\A id \in Triggers :
             LET h == history[id]
             IN  /\ h.requests <= 1
                 /\ (h.stage \in {"inflight", "done"} /\ endpoint) => h.requests = 1
                 /\ h.stage \in {"validating", "invalid"} => h.requests = 0)
    /\ [][\A id \in Triggers :
             history'[id].requests # history[id].requests
                 => history[id].stage = "validating"]_vars
    /\ [](\A id \in Triggers :
             history[id].stage = "inflight" <=> \E r \in inflight : r.id = id)

C6_Witness ==
    /\ inflight = {}
    /\ validating = {}
    /\ \E i \in Triggers : history[i].outcome = NoResponse /\ history[i].requests = 1
    /\ \E j \in Triggers : history[j].outcome = Response(500, "") /\ history[j].requests = 1

\* the requests sent in this step
Sent == inflight' \ inflight

\* C11: for a valid record the payload keeps every field other than budgetUsd,
\* keeps a budgetUsd that is present and holds the unset marker for one that is
\* absent; the payload sent to the endpoint is this transformed record.
C11_PayloadIsRecord ==
    [][\A v \in Resolved :
          (v.result.success /\ endpoint) =>
              \E r \in Sent :
                  /\ r.id = v.id
                  /\ \A f \in Fields \ {"budgetUsd"} : r.payload[f] = v.data[f]
                  /\ v.data.budgetUsd.kind = "number"
                        => r.payload.budgetUsd = v.data.budgetUsd
                  /\ v.data.budgetUsd.kind = "undefined"
                        => r.payload.budgetUsd = Undefined
                  /\ DOMAIN r.payload = DOMAIN v.data]_vars

C11_Witness ==
    /\ \E r \in inflight : r.payload.budgetUsd = Undefined
    /\ \E r \in inflight : r.payload.budgetUsd = ValidRecord.budgetUsd

\* two results agree: the same verdict and the same first message per field
SameResult(a, b) ==
    /\ a.success = b.success
    /\ FirstErrors(a.issues) = FirstErrors(b.issues)

\* the instant of the latest safeParse
LastParsedAt == parsedAt[Len(parsedAt)]

\* C12 as stated: validating the same record twice, at any two points of an
\* execution, gives the same verdict and the same first error per field.
C12_PureInRecord ==
    [][Parsed => SameResult(result', result)]_vars

\* C12 as amended: validating the same record twice gives the same verdict and
\* the same first error per field when both validations fall on the same local
\* calendar day.
C12_PureInRecordAndDay ==
    [][(Parsed /\ LocalDay(LastParsedAt, tz) = LocalDay(now, tz))
          => SameResult(result', result)]_vars

C12_Witness ==
    /\ Len(parsedAt) = 2
    /\ parsedAt[1] < parsedAt[2]
    /\ LocalDay(parsedAt[1], tz) = LocalDay(parsedAt[2], tz)
    /\ form.projectStartDate # <<>>
    /\ DayOf(form.projectStartDate) = LocalDay(now, tz)
    /\ result.success

\* C13: when a field breaks several of its rules, the first reported error is
\* that of the earliest rule in declaration order: an empty email reports "Email
\* is required", an empty projectStartDate reports "Project start date is
\* required", and a too-short fullName reports the minimum-length message, each
\* before the later rule the value breaks as well.
C13_FirstRuleFirst ==
    Parsed =>
        /\ form.email = <<>> =>
              /\ FirstMessage(result, "email") = "Email is required"
              /\ \E i \in 1..Len(result.issues) :
                    result.issues[i].message = "Please enter a valid email address"
        /\ form.projectStartDate = <<>> =>
              /\ FirstMessage(result, "projectStartDate")
                    = "Project start date is required"
              /\ \E i \in 1..Len(result.issues) :
                    result.issues[i].message = "Project start date must be today or later"
        /\ Len(form.fullName) < FullNameMin =>
              FirstMessage(result, "fullName")
                  = "Full name must be at least 2 characters"

C13_Witness ==
    /\ Parsed
    /\ form.email = <<>>
    /\ form.projectStartDate = <<>>
    /\ form.fullName = <<"1">>
    /\ \E i \in 1..Len(result.issues) :
          result.issues[i].message
              = "Full name can only contain letters, spaces, apostrophes, and hyphens"

\* C14: in every reachable state in which a request is in flight, isSubmitting
\* is true and no submission error is displayed.
C14_InFlightIsSubmitting ==
    inflight # {} => isSubmitting /\ submissionState.type = "null"

=============================================================================
